---- MODULE Spec2Model ----
(***************************************************************************)
(* A model of the semantic-search demo: the offline ingestion pipeline     *)
(* (io_utils/pre_processor.py), the LLM provider client and the student    *)
(* generator (generation_utils), and the query handling of app.py.         *)
(*                                                                         *)
(* Python strings are sequences of one-character strings, so that slicing, *)
(* regular-expression rewriting, formatting and comparison are computed    *)
(* character by character, as the code computes them.                      *)
(***************************************************************************)
EXTENDS Naturals, Integers, Sequences, FiniteSets, TLC

VARIABLES
    \* ---- clean_text, applied and re-applied (pre_processor.py 51-55)
    ct_pc, ct_in, ct_once, ct_twice,
    \* ---- chunk_text, its loop state and locals (pre_processor.py 82-102)
    ch_pc, sentences, enc, max_tokens, overlap, ch_i,
    chunks, current, current_tokens, full_chunk, overlap_txt, placed, ch_result,
    \* ---- LLMClient / StudentGenerator (llm_client.py, generator.py)
    provider, llm_pc, llm_schema, llm_ev, llm_sent, llm_warned, llm_result,
    \* ---- run_ingestion and embed_and_upsert (pre_processor.py 107-187)
    ing_pc, platform, dir_exists, all_files, embedding_model_name, tokenizer_model,
    chunk_size, chunk_overlap, ing_i, file_chunks, encode_calls, add_calls,
    collection, ing_exc, ing_count,
    \* ---- the script of app.py: one run of it per interaction
    app_pc, sys_cfg, student, query_text, search_btn, steps, retrieved_data,
    ranked_data, answer_object, caught, page, runs

cleanVars == <<ct_pc, ct_in, ct_once, ct_twice>>
chunkVars == <<ch_pc, sentences, enc, max_tokens, overlap, ch_i,
               chunks, current, current_tokens, full_chunk, overlap_txt, placed,
               ch_result>>
llmVars == <<provider, llm_pc, llm_schema, llm_ev, llm_sent, llm_warned, llm_result>>
ingestVars == <<ing_pc, platform, dir_exists, all_files, embedding_model_name,
                tokenizer_model, chunk_size, chunk_overlap, ing_i, file_chunks,
                encode_calls, add_calls, collection, ing_exc, ing_count>>
appVars == <<app_pc, sys_cfg, student, query_text, search_btn, steps,
             retrieved_data, ranked_data, answer_object, caught, page, runs>>
vars == <<cleanVars, chunkVars, llmVars, ingestVars, appVars>>

\* What an operation of one component leaves alone: the other components.
notClean == <<chunkVars, llmVars, ingestVars, appVars>>
notChunk == <<cleanVars, llmVars, ingestVars, appVars>>
notLLM == <<cleanVars, chunkVars, ingestVars, appVars>>
notIngest == <<cleanVars, chunkVars, llmVars, appVars>>
notApp == <<cleanVars, chunkVars, llmVars, ingestVars>>

(***************************************************************************)
(* Bounds of the model.                                                    *)
(***************************************************************************)
MaxTextLen == 5
MaxSents == 3
MaxTokens == 3
MaxOverlap == 3
MaxFiles == 2
MaxQueries == 2

\* Python's None, where a string and where a list of strings is expected (no
\* string holds the "character" None).
None == <<"None">>
NoneList == <<None>>

(***************************************************************************)
(* Python string primitives.                                               *)
(***************************************************************************)
\* All sequences over S of length 0..n.
SeqsUpTo(S, n) == UNION {[1..k -> S] : k \in 0..n}

Min(a, b) == IF a < b THEN a ELSE b
Max(a, b) == IF a > b THEN a ELSE b

\* s[from:] with a 0-based, already normalised start.
DropFirst(s, k) == SubSeq(s, k + 1, Len(s))

\* What str.strip() removes.
Whitespace == {" ", "\t", "\n", "\f", "\r"}

RECURSIVE LStrip(_)
LStrip(s) == IF s # <<>> /\ s[1] \in Whitespace THEN LStrip(Tail(s)) ELSE s

RECURSIVE RStrip(_)
RStrip(s) ==
    IF s # <<>> /\ s[Len(s)] \in Whitespace
    THEN RStrip(SubSeq(s, 1, Len(s) - 1)) ELSE s

Strip(s) == RStrip(LStrip(s))

\* sep.join(parts)
RECURSIVE Join(_, _)
Join(parts, sep) ==
    IF parts = <<>> THEN <<>>
    ELSE IF Len(parts) = 1 THEN parts[1]
    ELSE parts[1] \o sep \o Join(Tail(parts), sep)

(***************************************************************************)
(* clean_text                                                              *)
(***************************************************************************)
\* re.sub(r'\n{2,}', '\n', text): every maximal run of newlines becomes one.
RECURSIVE CollapseNewlines(_)
CollapseNewlines(s) ==
    IF s = <<>> THEN <<>>
    ELSE IF s[1] = "\n" /\ Len(s) >= 2 /\ s[2] = "\n"
         THEN CollapseNewlines(Tail(s))
         ELSE <<s[1]>> \o CollapseNewlines(Tail(s))

\* re.sub(r'[ \t]+', ' ', text): every maximal run of spaces and tabs becomes
\* one space.
RECURSIVE CollapseBlanks(_)
CollapseBlanks(s) ==
    IF s = <<>> THEN <<>>
    ELSE IF s[1] \in {" ", "\t"}
         THEN IF Len(s) >= 2 /\ s[2] \in {" ", "\t"}
              THEN CollapseBlanks(Tail(s))
              ELSE <<" ">> \o CollapseBlanks(Tail(s))
         ELSE <<s[1]>> \o CollapseBlanks(Tail(s))

\* re.sub(r'\f', '', text)
RemoveFormFeeds(s) == SelectSeq(s, LAMBDA c : c # "\f")

\* The three substitutions in the order of the code, then strip().
clean_text(text) == Strip(RemoveFormFeeds(CollapseBlanks(CollapseNewlines(text))))

\* The characters clean_text rewrites, and an ordinary one.
CleanAlphabet == {"\n", " ", "\t", "\f", "a"}

CleanOff ==
    /\ ct_pc = "off"
    /\ ct_in = <<>>
    /\ ct_once = None
    /\ ct_twice = None

InitCleanText ==
    /\ ct_pc = "start"
    /\ ct_in \in SeqsUpTo(CleanAlphabet, MaxTextLen)
    /\ ct_once = None
    /\ ct_twice = None

\* t1 = clean_text(t)
CleanOnce ==
    /\ ct_pc = "start"
    /\ ct_once' = clean_text(ct_in)
    /\ ct_pc' = "once"
    /\ UNCHANGED <<ct_in, ct_twice>>
    /\ UNCHANGED notClean

\* t2 = clean_text(t1)
CleanTwice ==
    /\ ct_pc = "once"
    /\ ct_twice' = clean_text(ct_once)
    /\ ct_pc' = "twice"
    /\ UNCHANGED <<ct_in, ct_once>>
    /\ UNCHANGED notClean

(***************************************************************************)
(* chunk_text                                                              *)
(***************************************************************************)
\* len(enc.encode(s)) under the encoding tiktoken.get_encoding(name) returns.
\* Two encodings stand for the tokenizer: "char" gives one token per
\* character, "word" one token per maximal run of non-space characters (and
\* one token for a string of spaces only).
RECURSIVE WordCount(_, _)
WordCount(s, inWord) ==
    IF s = <<>> THEN 0
    ELSE IF s[1] = " " THEN WordCount(Tail(s), FALSE)
    ELSE (IF inWord THEN 0 ELSE 1) + WordCount(Tail(s), TRUE)

Encodings == {"char", "word"}

TokLen(e, s) ==
    IF e = "char" THEN Len(s)
    ELSE IF s = <<>> THEN 0 ELSE Max(WordCount(s, FALSE), 1)

\* s[-k:] as Python evaluates it for k >= 0: -0 is 0, so s[-0:] is all of s.
SliceFromMinus(s, k) ==
    IF k = 0 THEN s ELSE DropFirst(s, Max(Len(s) - k, 0))

\* overlap_txt = full_chunk[-overlap:] if len(full_chunk) > overlap else full_chunk
OverlapText(fc, ov) == IF Len(fc) > ov THEN SliceFromMinus(fc, ov) ELSE fc


\* A variant of the length test that never skips a sentence.
TooLongNever(sent_len, mt) == FALSE

\* if sent_len > max_tokens: continue
TooLong(sent_len, mt) == sent_len > mt

\* if current_tokens + sent_len > max_tokens:
Overflows(ct, sent_len, mt) == ct + sent_len > mt

\* hashlib.md5(c).hexdigest() identifies the chunk's text; first seen kept.
RECURSIVE DedupFrom(_, _)
DedupFrom(cs, seen) ==
    IF cs = <<>> THEN <<>>
    ELSE IF cs[1] \in seen THEN DedupFrom(Tail(cs), seen)
    ELSE <<cs[1]>> \o DedupFrom(Tail(cs), seen \cup {cs[1]})

deduplicate_chunks(cs) == DedupFrom(cs, {})

\* The loop's state: the locals of chunk_text, and for each chunk appended to
\* chunks the sentences placed in it (the chunk without its overlap seed).
LoopStart ==
    [chunks |-> <<>>, current |-> <<>>, current_tokens |-> 0,
     full_chunk |-> None, overlap_txt |-> None, sents |-> <<>>, placed |-> <<>>]

\* One iteration of "for sent in sentences".
LoopBody(st, sent, e, mt, ov) ==
    LET sent_len == TokLen(e, sent) IN
    IF TooLong(sent_len, mt) THEN st
    ELSE IF Overflows(st.current_tokens, sent_len, mt)
    THEN LET fc  == Join(st.current, <<" ">>)
             otx == OverlapText(fc, ov)
         IN [chunks |-> Append(st.chunks, fc),
             current |-> <<otx, sent>>,
             current_tokens |-> TokLen(e, otx) + sent_len,
             full_chunk |-> fc, overlap_txt |-> otx,
             sents |-> <<sent>>,
             placed |-> Append(st.placed, st.sents)]
    ELSE [st EXCEPT !.current = Append(@, sent),
                    !.current_tokens = @ + sent_len,
                    !.sents = Append(@, sent)]

\* if current: chunks.append(" ".join(current))
LoopEnd(st) ==
    IF st.current # <<>>
    THEN [st EXCEPT !.chunks = Append(@, Join(st.current, <<" ">>)),
                    !.placed = Append(@, st.sents)]
    ELSE st

RECURSIVE LoopFrom(_, _, _, _, _)
LoopFrom(st, ss, e, mt, ov) ==
    IF ss = <<>> THEN st
    ELSE LoopFrom(LoopBody(st, ss[1], e, mt, ov), Tail(ss), e, mt, ov)

\* chunk_text applied to the sentences sent_tokenize found.
chunk_sentences(ss, e, mt, ov) ==
    deduplicate_chunks(LoopEnd(LoopFrom(LoopStart, ss, e, mt, ov)).chunks)

\* The sentences the chunking is exercised on.
SampleSentences ==
    {<<"a">>, <<"a", "b">>, <<"b", " ", "a">>, <<"a", " ", "b", "c">>}

ChunkOff ==
    /\ ch_pc = "off"
    /\ sentences = <<>> /\ enc = "char" /\ max_tokens = 0 /\ overlap = 0
    /\ ch_i = 0 /\ chunks = <<>> /\ current = <<>> /\ current_tokens = 0
    /\ full_chunk = None /\ overlap_txt = None /\ placed = <<>>
    /\ ch_result = NoneList

LoopState ==
    [chunks |-> chunks, current |-> current, current_tokens |-> current_tokens,
     full_chunk |-> full_chunk, overlap_txt |-> overlap_txt,
     sents |-> IF full_chunk = None THEN current ELSE Tail(current),
     placed |-> placed]

SetLoopState(st) ==
    /\ chunks' = st.chunks
    /\ current' = st.current
    /\ current_tokens' = st.current_tokens
    /\ full_chunk' = st.full_chunk
    /\ overlap_txt' = st.overlap_txt
    /\ placed' = st.placed

InitChunkText ==
    /\ ch_pc = "loop"
    /\ sentences \in SeqsUpTo(SampleSentences, MaxSents)
    /\ enc \in Encodings
    /\ max_tokens \in 1..MaxTokens
    /\ overlap \in 0..MaxOverlap
    /\ ch_i = 0
    /\ chunks = <<>> /\ current = <<>> /\ current_tokens = 0
    /\ full_chunk = None /\ overlap_txt = None /\ placed = <<>>
    /\ ch_result = NoneList

\* The next sentence is skipped, or closes the chunk and starts the
\* continuation, or is appended.
ChunkStep ==
    /\ ch_pc = "loop"
    /\ ch_i < Len(sentences)
    /\ ch_i' = ch_i + 1
    /\ SetLoopState(LoopBody(LoopState, sentences[ch_i + 1], enc, max_tokens, overlap))
    /\ UNCHANGED <<ch_pc, sentences, enc, max_tokens, overlap, ch_result>>
    /\ UNCHANGED notChunk

\* After the loop: the last chunk is appended and the list deduplicated.
ChunkFinish ==
    /\ ch_pc = "loop"
    /\ ch_i = Len(sentences)
    /\ SetLoopState(LoopEnd(LoopState))
    /\ ch_result' = deduplicate_chunks(LoopEnd(LoopState).chunks)
    /\ ch_pc' = "done"
    /\ UNCHANGED <<sentences, enc, max_tokens, overlap, ch_i>>
    /\ UNCHANGED notChunk

(***************************************************************************)
(* The answer schema (schema.py) and pydantic's handling of it             *)
(***************************************************************************)
SchemaTypes == {"Response", "DatasetSummary"}

\* The fields of each model; every one is optional.
Fields(T) ==
    IF T = "Response" THEN {"answer", "name_top", "supporting_datasets"}
    ELSE {"name", "summary", "quote"}

\* Field(None, ...) and Field(default_factory=list, ...)
FieldDefault(f) == IF f = "supporting_datasets" THEN "[]" ELSE "None"

\* A JSON object as the kinds of its members: a string, a number, a list of
\* dataset summaries, or the key left out.
JsonKinds == {"absent", "str", "num", "list"}
JsonKeys == Fields("Response") \cup Fields("DatasetSummary")
JsonObjects == [JsonKeys -> JsonKinds]

\* Optional[str] takes a string, List[DatasetSummary] a list; a key that is
\* left out takes the default and a key of another model is ignored.
FieldAccepts(f, kind) ==
    \/ kind = "absent"
    \/ IF f = "supporting_datasets" THEN kind = "list" ELSE kind = "str"

Validates(T, obj) == \A f \in Fields(T) : FieldAccepts(f, obj[f])

\* T.model_validate(obj) where it validates.
Instance(T, obj) ==
    [type |-> T,
     fields |-> [f \in Fields(T) |->
                    IF obj[f] = "absent" THEN FieldDefault(f) ELSE obj[f]]]

\* T.model_construct(): no field given, every field at its default.
model_construct(T) == [type |-> T, fields |-> [f \in Fields(T) |-> FieldDefault(f)]]

Return(v) == [kind |-> "return", value |-> v]
Raise(e) == [kind |-> "raise", exc |-> e]

\* model_validate_json(text) and model_validate(json.loads(text)): no text,
\* invalid JSON and invalid data all raise.
ParseInto(T, ev) ==
    IF ev.kind = "empty" THEN Raise("TypeError")
    ELSE IF ~ev.json THEN Raise("JSONDecodeError")
    ELSE IF ~Validates(T, ev.obj) THEN Raise("ValidationError")
    ELSE Return(Instance(T, ev.obj))

(***************************************************************************)
(* LLMClient                                                               *)
(***************************************************************************)
\* The providers _init_client accepts; any other name raises ValueError in
\* the constructor.
Providers == {"gemini", "openai", "anthropic", "groq"}

\* What the provider's endpoint does with one request: the call raises, or
\* it answers without content (None), or it answers text that is JSON (an
\* object of some shape) or is not.
ProviderEvents ==
    {[kind |-> "raise", json |-> FALSE, obj |-> [k \in JsonKeys |-> "absent"]],
     [kind |-> "empty", json |-> FALSE, obj |-> [k \in JsonKeys |-> "absent"]],
     [kind |-> "text", json |-> FALSE, obj |-> [k \in JsonKeys |-> "absent"]]}
    \cup {[kind |-> "text", json |-> TRUE, obj |-> o] : o \in JsonObjects}

\* The schema each branch hands to the provider (response_schema,
\* response_format, json_schema.schema); anthropic sends nothing.
SentSchema(p, schema_model) ==
    IF p \in {"gemini", "openai"} THEN schema_model
    ELSE IF p = "groq" THEN "Response"
    ELSE "None"

\* The model each branch parses the answer into.
ParsedAs(p, schema_model) ==
    IF p \in {"gemini", "openai"} THEN schema_model
    ELSE IF p = "groq" THEN "Response"
    ELSE "None"

\* The body of the try block of generate_structured.
StructuredBody(p, schema_model, ev) ==
    IF p \in {"gemini", "openai", "groq"}
    THEN IF ev.kind = "raise" THEN Raise("ProviderError")
         ELSE ParseInto(ParsedAs(p, schema_model), ev)
    ELSE Raise("NotImplementedError")


\* A variant of the except clause that lets the exception out.
OnExceptionReraises(schema_model) == Raise("Exception")

\* except Exception: print the warning, return schema_model.model_construct()
OnException(schema_model) == Return(model_construct(schema_model))

generate_structured(p, schema_model, ev) ==
    LET body == StructuredBody(p, schema_model, ev) IN
    IF body.kind = "raise" THEN OnException(schema_model) ELSE body

\* A Python str, among the values generate returns.
Str(t) == [type |-> "str", fields |-> t]

\* generate_text: the provider's text, None where the provider answers no
\* content, or "Error: {e}" when the call raises.
generate_text(p, ev) ==
    IF ev.kind = "raise" THEN Return(Str("Error: ProviderError"))
    ELSE IF ev.kind = "empty" THEN Return(Str("None"))
    ELSE Return(Str("text"))

(***************************************************************************)
(* StudentGenerator                                                        *)
(***************************************************************************)
\* generate(query, context, schema): schema is a model, or None.
generate(p, schema, ev) ==
    IF schema # "None" THEN generate_structured(p, schema, ev)
    ELSE LET response == generate_text(p, ev) IN
         IF response.value = Str("None")
         THEN Return(Str("Error: The LLM returned no response."))
         ELSE response

LLMOff ==
    /\ provider = "None"
    /\ llm_pc = "off"
    /\ llm_schema = "None"
    /\ llm_ev = "None"
    /\ llm_sent = "None"
    /\ llm_warned = FALSE
    /\ llm_result = "None"

\* After LLMClient(provider, model_name): no call made yet.
InitLLMClient ==
    /\ provider \in Providers
    /\ llm_pc = "ready"
    /\ llm_schema = "None"
    /\ llm_ev = "None"
    /\ llm_sent = "None"
    /\ llm_warned = FALSE
    /\ llm_result = "None"

\* student.generate(query, context, schema) with a schema.
GenerateStructured ==
    /\ llm_pc = "ready"
    /\ llm_pc' = "returned"
    /\ \E schema_model \in SchemaTypes, ev \in ProviderEvents :
        /\ llm_schema' = schema_model
        /\ llm_ev' = ev
        /\ llm_sent' = SentSchema(provider, schema_model)
        /\ llm_warned' = (StructuredBody(provider, schema_model, ev).kind = "raise")
        /\ llm_result' = generate(provider, schema_model, ev)
    /\ UNCHANGED provider
    /\ UNCHANGED notLLM

\* student.generate(query, context) without a schema.
GenerateText ==
    /\ llm_pc = "ready"
    /\ llm_pc' = "returned"
    /\ \E ev \in ProviderEvents :
        /\ llm_ev' = ev
        /\ llm_result' = generate(provider, "None", ev)
    /\ llm_schema' = "None"
    /\ llm_sent' = "None"
    /\ llm_warned' = FALSE
    /\ UNCHANGED provider
    /\ UNCHANGED notLLM

(***************************************************************************)
(* More string primitives, for filter_noise, paths and ids                 *)
(***************************************************************************)
LowerLetters == <<"a", "b", "c", "d", "e", "f", "g", "h", "i", "j", "k", "l", "m",
                  "n", "o", "p", "q", "r", "s", "t", "u", "v", "w", "x", "y", "z">>
UpperLetters == <<"A", "B", "C", "D", "E", "F", "G", "H", "I", "J", "K", "L", "M",
                  "N", "O", "P", "Q", "R", "S", "T", "U", "V", "W", "X", "Y", "Z">>
DigitChars == <<"0", "1", "2", "3", "4", "5", "6", "7", "8", "9">>

IsLower(c) == \E i \in 1..26 : LowerLetters[i] = c
IsUpper(c) == \E i \in 1..26 : UpperLetters[i] = c
IsDigit(c) == \E i \in 1..10 : DigitChars[i] = c

UpperChar(c) ==
    IF IsLower(c) THEN UpperLetters[CHOOSE i \in 1..26 : LowerLetters[i] = c] ELSE c
LowerChar(c) ==
    IF IsUpper(c) THEN LowerLetters[CHOOSE i \in 1..26 : UpperLetters[i] = c] ELSE c

\* str.upper(), str.lower()
Upper(s) == [i \in 1..Len(s) |-> UpperChar(s[i])]
Lower(s) == [i \in 1..Len(s) |-> LowerChar(s[i])]

\* str.isupper(): a cased character, and no lowercase one.
IsUpperStr(s) ==
    /\ \E i \in 1..Len(s) : IsUpper(s[i])
    /\ \A i \in 1..Len(s) : ~IsLower(s[i])

\* sub in s
Contains(s, sub) ==
    \E i \in 1..(Len(s) + 1) :
        /\ i + Len(sub) - 1 <= Len(s)
        /\ SubSeq(s, i, i + Len(sub) - 1) = sub

\* s.replace(a, b) for single characters a and b.
ReplaceChar(s, a, b) == [i \in 1..Len(s) |-> IF s[i] = a THEN b ELSE s[i]]

\* s.split(sep) for a single character sep: always at least one part.
RECURSIVE SplitFrom(_, _, _)
SplitFrom(s, sep, part) ==
    IF s = <<>> THEN <<part>>
    ELSE IF s[1] = sep THEN <<part>> \o SplitFrom(Tail(s), sep, <<>>)
    ELSE SplitFrom(Tail(s), sep, Append(part, s[1]))

Split(s, sep) == SplitFrom(s, sep, <<>>)

\* str(n) for n >= 0
RECURSIVE IntToStr(_)
IntToStr(n) ==
    IF n < 10 THEN <<DigitChars[n + 1]>>
    ELSE IntToStr(n \div 10) \o <<DigitChars[(n % 10) + 1]>>

(***************************************************************************)
(* filter_noise                                                            *)
(***************************************************************************)
\* re.match(r'^\d+[\.\)]', s)
RECURSIVE AfterDigits(_)
AfterDigits(s) == IF s # <<>> /\ IsDigit(s[1]) THEN AfterDigits(Tail(s)) ELSE s

StartsWithListMarker(s) ==
    /\ s # <<>> /\ IsDigit(s[1])
    /\ AfterDigits(s) # <<>>
    /\ AfterDigits(s)[1] \in {".", ")"}

REFERENCES == <<"R", "E", "F", "E", "R", "E", "N", "C", "E", "S">>
TABLE == <<"T", "A", "B", "L", "E">>
ShortLineLen == 30

\* The line is dropped: blank, a numbered item, a short upper-case line, or
\* one that names references or a table.
IsNoise(ln) ==
    LET s == Strip(ln) IN
    \/ s = <<>>
    \/ StartsWithListMarker(s)
    \/ (Len(s) < ShortLineLen /\ IsUpperStr(s))
    \/ Contains(Upper(s), REFERENCES)
    \/ Contains(Upper(s), TABLE)

filter_noise(text) ==
    Join(SelectSeq(Split(text, "\n"), LAMBDA ln : ~IsNoise(ln)), <<"\n">>)

(***************************************************************************)
(* sent_tokenize and chunk_text on a text                                  *)
(***************************************************************************)
\* nltk's sent_tokenize: a sentence ends with a full stop, question mark or
\* exclamation mark that white space or the end of the text follows; the
\* white space between sentences is dropped; an empty text has no sentence.
RECURSIVE SentencesFrom(_, _)
SentencesFrom(s, sent) ==
    IF s = <<>> THEN (IF Strip(sent) = <<>> THEN <<>> ELSE <<Strip(sent)>>)
    ELSE IF /\ s[1] \in {".", "?", "!"}
            /\ (Len(s) = 1 \/ s[2] \in Whitespace)
         THEN <<Strip(Append(sent, s[1]))>> \o SentencesFrom(Tail(s), <<>>)
         ELSE SentencesFrom(Tail(s), Append(sent, s[1]))

sent_tokenize(text) == SentencesFrom(text, <<>>)

chunk_text(text, e, mt, ov) == chunk_sentences(sent_tokenize(text), e, mt, ov)

(***************************************************************************)
(* Text extraction                                                         *)
(***************************************************************************)
\* What the file is on disk when it is read: readable with the visible text
\* it holds, gone since the walk listed it, unreadable (open or read raises:
\* permissions, bytes that are not UTF-8), or corrupt (broken markup, broken
\* PDF structure).
FileStates == {"ok", "missing", "unreadable", "corrupt"}

\* extract_text_from_html: only the missing file is handled; open() and
\* read() are outside any try; html.parser takes broken markup as it comes.
extract_text_from_html(f) ==
    IF f.state = "missing" THEN Return(<<>>)
    ELSE IF f.state = "unreadable" THEN Raise("OSError/UnicodeDecodeError")
    ELSE Return(f.text)

\* extract_text_from_pdf: the missing file returns "", and everything fitz
\* raises is caught and returns "".
extract_text_from_pdf(f) ==
    IF f.state = "missing" THEN Return(<<>>)
    ELSE IF f.state \in {"unreadable", "corrupt"} THEN Return(<<>>)
    ELSE Return(Strip(f.text))

(***************************************************************************)
(* Paths                                                                   *)
(***************************************************************************)
\* The separator str(path) puts between the components.
Separator(pf) == IF pf = "windows" THEN "\\" ELSE "/"

\* str(relative_path).replace("\\", "/")
readable_source_name(pf, path) ==
    ReplaceChar(Join(path, <<Separator(pf)>>), "\\", "/")

\* PurePath.suffix of the last component: from its last dot, unless that dot
\* is its first or its last character.
RECURSIVE LastDot(_)
LastDot(name) ==
    IF name = <<>> THEN 0
    ELSE IF name[Len(name)] = "." THEN Len(name)
    ELSE LastDot(SubSeq(name, 1, Len(name) - 1))

Suffix(path) ==
    LET name == path[Len(path)]
        i == LastDot(name)
    IN IF 1 < i /\ i < Len(name) THEN SubSeq(name, i, Len(name)) ELSE <<>>

DotHtml == <<".", "h", "t", "m", "l">>
DotPdf == <<".", "p", "d", "f">>

\* ext = file_path.suffix.lower()
Ext(path) == Lower(Suffix(path))

(***************************************************************************)
(* embed_and_upsert                                                        *)
(***************************************************************************)
PassagePrefix == <<"p", "a", "s", "s", "a", "g", "e", ":", " ">>


\* A variant of the prefix test that compares the name as it is written.
doc_prefix_case_sensitive(model_name) ==
    IF Contains(model_name, <<"e", "5">>) THEN PassagePrefix ELSE <<>>

\* doc_prefix = "passage: " if "e5" in model_name.lower() else ""
doc_prefix(model_name) ==
    IF Contains(Lower(model_name), <<"e", "5">>) THEN PassagePrefix ELSE <<>>

\* texts_to_embed = [f"{doc_prefix}{c}" for c in chunks]
texts_to_embed(cs, model_name) ==
    [i \in 1..Len(cs) |-> doc_prefix(model_name) \o cs[i]]

\* ids = [f"{source_filename}_{i}" for i in range(len(chunks))]
chunk_id(source_filename, i) == source_filename \o <<"_">> \o IntToStr(i)

chunk_ids(cs, source_filename) ==
    [i \in 1..Len(cs) |-> chunk_id(source_filename, i - 1)]

\* metadatas = [{"dataset": source_filename}] * len(chunks)
chunk_metadatas(cs, source_filename) ==
    [i \in 1..Len(cs) |-> [dataset |-> source_filename]]

\* The documents handed to collection.add.
chunk_documents(cs) == cs

\* The vector the encoder gives a text: it tells which text was encoded.
Embedding(text) == <<"vec">> \o text

\* The collection.add call embed_and_upsert makes for a non-empty chunk list.
AddCall(cs, model_name, source_filename) ==
    [ids |-> chunk_ids(cs, source_filename),
     embeddings |-> [i \in 1..Len(cs) |-> Embedding(texts_to_embed(cs, model_name)[i])],
     documents |-> chunk_documents(cs),
     metadatas |-> chunk_metadatas(cs, source_filename)]

\* The records of the call, in order.
CallRecords(call) ==
    [i \in 1..Len(call.ids) |->
        [id |-> call.ids[i], embedding |-> call.embeddings[i],
         document |-> call.documents[i], metadata |-> call.metadatas[i]]]

StoredIds(coll) == {coll[i].id : i \in 1..Len(coll)}

\* What the vector store does with a record whose id it already holds: it
\* keeps the old record, takes the new one in its place, or refuses the call.
DuplicatePolicies == {"ignore", "overwrite", "reject"}

RECURSIVE AddRecords(_, _, _)
AddRecords(coll, recs, policy) ==
    IF recs = <<>> THEN coll
    ELSE LET r == recs[1] IN
         IF r.id \in StoredIds(coll)
         THEN AddRecords(IF policy = "overwrite"
                         THEN [i \in 1..Len(coll) |->
                                  IF coll[i].id = r.id THEN r ELSE coll[i]]
                         ELSE coll,
                         Tail(recs), policy)
         ELSE AddRecords(Append(coll, r), Tail(recs), policy)

Collides(coll, call) == \E i \in 1..Len(call.ids) : call.ids[i] \in StoredIds(coll)

(***************************************************************************)
(* run_ingestion                                                           *)
(***************************************************************************)
\* The files of the samples: their paths relative to data_dir, and the
\* visible text each holds.
TextTwoSentences == <<"A", "a", ".", " ", "B", "b", ".">>
TextOneSentence == <<"C", "c", ".">>
TextNoisy ==
    <<"1", ".", " ", "x", "\n", "\n", "D", "d", " ", " ", "e", ".", "\n",
      "T", "a", "b", "l", "e", " ", "2">>

SampleFiles ==
    {[path |-> << <<"a">>, <<"b", ".", "p", "d", "f">> >>, text |-> TextTwoSentences],
     [path |-> << <<"a", "\\", "b", ".", "p", "d", "f">> >>, text |-> TextOneSentence],
     [path |-> << <<"c", ".", "h", "t", "m", "l">> >>, text |-> TextNoisy],
     [path |-> << <<"d", ".", "P", "D", "F">> >>, text |-> TextTwoSentences],
     [path |-> << <<"n", ".", "t", "x", "t">> >>, text |-> TextOneSentence]}

\* A component of a path holds no separator of its platform (and on Windows
\* no slash either).
ValidName(pf, name) ==
    \A i \in 1..Len(name) :
        /\ name[i] # "/"
        /\ pf = "windows" => name[i] # "\\"

ValidPath(pf, path) == \A k \in 1..Len(path) : ValidName(pf, path[k])

\* The files of a tree, with the state each is in when it is read. A file the
\* pipeline never opens is listed once.
FilesOn(pf) ==
    {[path |-> f.path, text |-> f.text, state |-> st] :
        f \in {g \in SampleFiles : ValidPath(pf, g.path)}, st \in FileStates}

IsDocument(path) == Ext(path) \in {DotHtml, DotPdf}

\* rglob lists every file once, in no particular order.
Walks(pf) ==
    {w \in SeqsUpTo(FilesOn(pf), MaxFiles) :
        /\ \A i, j \in 1..Len(w) : i # j => w[i].path # w[j].path
        /\ \A i \in 1..Len(w) : ~IsDocument(w[i].path) => w[i].state = "ok"}

SampleModelNames ==
    {<<"e", "5">>, <<"m", "E", "5", "-", "L">>, <<"b", "g", "e">>, <<"e", "-", "5">>}

SampleChunkSizes == {1, 3}
IngestOverlap == 2

\* Extract by extension; None for a file that is skipped.
Extract(f) ==
    IF Ext(f.path) = DotHtml THEN extract_text_from_html(f)
    ELSE IF Ext(f.path) = DotPdf THEN extract_text_from_pdf(f)
    ELSE Return(None)

\* Pipeline: Extract -> Clean -> Filter -> Chunk
Pipeline(raw_text, e, mt, ov) ==
    chunk_text(filter_noise(clean_text(raw_text)), e, mt, ov)

IngestOff ==
    /\ ing_pc = "off" /\ platform = "posix" /\ dir_exists = FALSE
    /\ all_files = <<>> /\ embedding_model_name = <<>> /\ tokenizer_model = "char"
    /\ chunk_size = 0 /\ chunk_overlap = 0 /\ ing_i = 0 /\ file_chunks = <<>>
    /\ encode_calls = <<>> /\ add_calls = <<>> /\ collection = <<>>
    /\ ing_exc = "None" /\ ing_count = 0

\* run_ingestion is called: the collection is opened (empty) and the model
\* loaded; nothing is processed yet.
InitRunIngestion ==
    /\ ing_pc = "start"
    /\ platform \in {"posix", "windows"}
    /\ dir_exists \in BOOLEAN
    /\ all_files \in (IF dir_exists THEN Walks(platform) ELSE {<<>>})
    /\ embedding_model_name \in SampleModelNames
    /\ tokenizer_model = "word"
    /\ chunk_size \in SampleChunkSizes
    /\ chunk_overlap = IngestOverlap
    /\ ing_i = 0
    /\ file_chunks = <<>>
    /\ encode_calls = <<>>
    /\ add_calls = <<>>
    /\ collection = <<>>
    /\ ing_exc = "None"
    /\ ing_count = 0

ingestParams == <<platform, dir_exists, all_files, embedding_model_name,
                  tokenizer_model, chunk_size, chunk_overlap>>

\* if not os.path.exists(data_dir): print the error and return
IngestNoDirectory ==
    /\ ing_pc = "start"
    /\ ~dir_exists
    /\ ing_pc' = "returned"
    /\ UNCHANGED <<ing_i, file_chunks, encode_calls, add_calls, collection,
                   ing_exc, ing_count>>
    /\ UNCHANGED ingestParams
    /\ UNCHANGED notIngest

\* all_files = [...]; the loop starts.
IngestWalk ==
    /\ ing_pc = "start"
    /\ dir_exists
    /\ ing_pc' = "loop"
    /\ UNCHANGED <<ing_i, file_chunks, encode_calls, add_calls, collection,
                   ing_exc, ing_count>>
    /\ UNCHANGED ingestParams
    /\ UNCHANGED notIngest

\* A file of another extension: continue.
IngestSkip ==
    /\ ing_pc = "loop"
    /\ ing_i < Len(all_files)
    /\ ~IsDocument(all_files[ing_i + 1].path)
    /\ ing_i' = ing_i + 1
    /\ file_chunks' = Append(file_chunks, NoneList)
    /\ UNCHANGED <<ing_pc, encode_calls, add_calls, collection, ing_exc, ing_count>>
    /\ UNCHANGED ingestParams
    /\ UNCHANGED notIngest

\* The extraction raises: nothing in run_ingestion catches it.
IngestExtractionRaises ==
    /\ ing_pc = "loop"
    /\ ing_i < Len(all_files)
    /\ IsDocument(all_files[ing_i + 1].path)
    /\ Extract(all_files[ing_i + 1]).kind = "raise"
    /\ ing_pc' = "raised"
    /\ ing_exc' = Extract(all_files[ing_i + 1]).exc
    /\ UNCHANGED <<ing_i, file_chunks, encode_calls, add_calls, collection, ing_count>>
    /\ UNCHANGED ingestParams
    /\ UNCHANGED notIngest

\* The text of the file is extracted, cleaned, filtered and chunked.
NextChunks ==
    Pipeline(Extract(all_files[ing_i + 1]).value,
             tokenizer_model, chunk_size, chunk_overlap)

NextSource == readable_source_name(platform, all_files[ing_i + 1].path)

\* A document with no chunk: embed_and_upsert returns at once.
IngestEmpty ==
    /\ ing_pc = "loop"
    /\ ing_i < Len(all_files)
    /\ IsDocument(all_files[ing_i + 1].path)
    /\ Extract(all_files[ing_i + 1]).kind = "return"
    /\ NextChunks = <<>>
    /\ ing_i' = ing_i + 1
    /\ file_chunks' = Append(file_chunks, <<>>)
    /\ UNCHANGED <<ing_pc, encode_calls, add_calls, collection, ing_exc, ing_count>>
    /\ UNCHANGED ingestParams
    /\ UNCHANGED notIngest

\* A document with chunks: they are encoded and added to the collection. What
\* the store does with an id it already holds is its own choice, and matters
\* only when the call brings such an id; a refused call raises out of
\* run_ingestion.
IngestUpsert ==
    /\ ing_pc = "loop"
    /\ ing_i < Len(all_files)
    /\ IsDocument(all_files[ing_i + 1].path)
    /\ Extract(all_files[ing_i + 1]).kind = "return"
    /\ NextChunks # <<>>
    /\ LET call == AddCall(NextChunks, embedding_model_name, NextSource) IN
        /\ encode_calls' = Append(encode_calls,
                                  texts_to_embed(NextChunks, embedding_model_name))
        /\ add_calls' = Append(add_calls, call)
        /\ \E policy \in DuplicatePolicies :
            /\ Collides(collection, call) \/ policy = "ignore"
            /\ IF Collides(collection, call) /\ policy = "reject"
               THEN /\ ing_pc' = "raised"
                    /\ ing_exc' = "DuplicateIDError"
                    /\ UNCHANGED <<collection, ing_i>>
               ELSE /\ collection' = AddRecords(collection, CallRecords(call), policy)
                    /\ ing_i' = ing_i + 1
                    /\ UNCHANGED <<ing_pc, ing_exc>>
        /\ file_chunks' = Append(file_chunks, NextChunks)
    /\ UNCHANGED ing_count
    /\ UNCHANGED ingestParams
    /\ UNCHANGED notIngest

\* count = collection.count(), after the loop.
IngestFinish ==
    /\ ing_pc = "loop"
    /\ ing_i = Len(all_files)
    /\ ing_count' = Len(collection)
    /\ ing_pc' = "done"
    /\ UNCHANGED <<ing_i, file_chunks, encode_calls, add_calls, collection, ing_exc>>
    /\ UNCHANGED ingestParams
    /\ UNCHANGED notIngest

(***************************************************************************)
(* app.py: the query handling                                              *)
(***************************************************************************)
\* What the user can have typed, and what a failing step can raise.
Queries == {"", "q1", "q2"}
Exceptions == {"ConnectionError", "KeyError"}

\* The settings load_system resolves from config.yaml.
SampleSettings ==
    {[DB_PATH |-> "db", COLLECTION_NAME |-> "c1", EMBEDDING_MODEL |-> "e5",
      NUM_DOCS |-> 3, CHUNKS_PER_DOC |-> 2],
     [DB_PATH |-> "db", COLLECTION_NAME |-> "c2", EMBEDDING_MODEL |-> "bge",
      NUM_DOCS |-> 5, CHUNKS_PER_DOC |-> 1]}

\* if search_btn and query_text:
ShouldSearch(btn, q) == btn /\ q # ""

\* The calls of the try block, in the order the script makes them.
StepOrder == <<"retrieval", "ranking", "generation", "render_answer", "render_evidence">>


\* A variant of the script that generates before it ranks.
StepAfterSwapped(step) ==
    IF step = "retrieval" THEN "generation"
    ELSE IF step = "generation" THEN "ranking"
    ELSE IF step = "ranking" THEN "render_answer"
    ELSE IF step = "render_answer" THEN "render_evidence"
    ELSE "end"

\* The statement that follows a step that returned ("end": the script is over).
StepAfter(step) ==
    IF step = "retrieval" THEN "ranking"
    ELSE IF step = "ranking" THEN "generation"
    ELSE IF step = "generation" THEN "render_answer"
    ELSE IF step = "render_answer" THEN "render_evidence"
    ELSE "end"


\* A variant of the message that leaves the exception's text out.
ErrorMessageWithoutText(e) == [kind |-> "error", text |-> <<"An error occurred: ", "">>]

\* st.error(f"An error occurred: {e}")
ErrorMessage(e) == [kind |-> "error", text |-> <<"An error occurred: ", e>>]

\* Where the script goes when a step raises e: the except clause shows the
\* message and the script ends.
AfterRaise(e) == [pc |-> "end", shown |-> <<ErrorMessage(e)>>]

NoData == [kind |-> "None"]

AppOff ==
    /\ app_pc = "off" /\ sys_cfg = "None" /\ student = "None"
    /\ query_text = "" /\ search_btn = FALSE /\ steps = <<>>
    /\ retrieved_data = NoData /\ ranked_data = NoData /\ answer_object = NoData
    /\ caught = NoData /\ page = <<>> /\ runs = <<>>

\* load_system() has run once and is cached; no interaction yet.
InitApp ==
    /\ app_pc = "end"
    /\ sys_cfg \in SampleSettings
    /\ student \in [provider : Providers]
    /\ query_text = "" /\ search_btn = FALSE /\ steps = <<>>
    /\ retrieved_data = NoData /\ ranked_data = NoData /\ answer_object = NoData
    /\ caught = NoData /\ page = <<>> /\ runs = <<>>

cached == <<sys_cfg, student>>

\* An interaction runs the script again: the cached system is returned as it
\* is, the search bar gives the text and the button, and the page is drawn
\* anew.
Rerun(q, btn) ==
    /\ app_pc = "end"
    /\ Len(runs) < MaxQueries
    /\ query_text' = q
    /\ search_btn' = btn
    /\ steps' = <<>>
    /\ retrieved_data' = NoData /\ ranked_data' = NoData /\ answer_object' = NoData
    /\ caught' = NoData
    /\ page' = <<>>
    /\ UNCHANGED cached
    /\ UNCHANGED notApp

\* The condition of the if holds: the try block is entered.
SubmitQuery ==
    \E q \in Queries, btn \in BOOLEAN :
        /\ ShouldSearch(btn, q)
        /\ Rerun(q, btn)
        /\ app_pc' = "retrieval"
        /\ UNCHANGED runs

\* The condition of the if fails: the script ends with the search bar only.
RerunWithoutSearch ==
    \E q \in Queries, btn \in BOOLEAN :
        /\ ~ShouldSearch(btn, q)
        /\ Rerun(q, btn)
        /\ app_pc' = "end"
        /\ runs' = Append(runs, "no_search")

\* A step is called and returns.
Returned(step) ==
    /\ steps' = Append(steps, step)
    /\ app_pc' = StepAfter(step)
    /\ runs' = IF StepAfter(step) = "end" THEN Append(runs, "answered") ELSE runs
    /\ UNCHANGED <<caught, query_text, search_btn>>
    /\ UNCHANGED cached
    /\ UNCHANGED notApp

\* A step is called and raises e: except Exception as e.
Raised(step, e) ==
    /\ steps' = Append(steps, step)
    /\ caught' = [kind |-> "exception", step |-> step, exc |-> e]
    /\ page' = page \o AfterRaise(e).shown
    /\ app_pc' = AfterRaise(e).pc
    /\ runs' = Append(runs, "error")
    /\ UNCHANGED <<query_text, search_btn, retrieved_data, ranked_data, answer_object>>
    /\ UNCHANGED cached
    /\ UNCHANGED notApp

\* A. retrieved_data = retrieve_data(query, ...settings...)
RetrieveReturns ==
    /\ app_pc = "retrieval"
    /\ retrieved_data' = [kind |-> "retrieved", query |-> query_text,
                          collection |-> sys_cfg.COLLECTION_NAME]
    /\ Returned("retrieval")
    /\ UNCHANGED <<ranked_data, answer_object, page>>

RetrieveRaises ==
    /\ app_pc = "retrieval"
    /\ \E e \in Exceptions : Raised("retrieval", e)

\* B. ranked_data = rank_datasets(retrieved_data)
RankReturns ==
    /\ app_pc = "ranking"
    /\ ranked_data' = [kind |-> "ranked", of |-> retrieved_data]
    /\ Returned("ranking")
    /\ UNCHANGED <<retrieved_data, answer_object, page>>

RankRaises ==
    /\ app_pc = "ranking"
    /\ \E e \in Exceptions : Raised("ranking", e)

\* C. answer_object = student.generate(query, str(ranked_data), schema=Response)
Generate ==
    /\ app_pc = "generation"
    /\ \E ev \in ProviderEvents :
        LET res == generate(student.provider, "Response", ev) IN
        IF res.kind = "raise"
        THEN /\ Raised("generation", res.exc)
        ELSE /\ answer_object' = res.value
             /\ Returned("generation")
             /\ UNCHANGED <<retrieved_data, ranked_data, page>>

\* render_answer_section(answer_object), in the left column
RenderAnswerReturns ==
    /\ app_pc = "render_answer"
    /\ page' = Append(page, [kind |-> "answer", of |-> answer_object])
    /\ Returned("render_answer")
    /\ UNCHANGED <<retrieved_data, ranked_data, answer_object>>

RenderAnswerRaises ==
    /\ app_pc = "render_answer"
    /\ \E e \in Exceptions : Raised("render_answer", e)

\* render_supporting_evidence(answer_object), in the right column
RenderEvidenceReturns ==
    /\ app_pc = "render_evidence"
    /\ page' = Append(page, [kind |-> "evidence", of |-> answer_object])
    /\ Returned("render_evidence")
    /\ UNCHANGED <<retrieved_data, ranked_data, answer_object>>

RenderEvidenceRaises ==
    /\ app_pc = "render_evidence"
    /\ \E e \in Exceptions : Raised("render_evidence", e)

(***************************************************************************)
(* Specifications                                                          *)
(***************************************************************************)
InitClean == InitCleanText /\ ChunkOff /\ LLMOff /\ IngestOff /\ AppOff
NextClean == CleanOnce \/ CleanTwice
SpecClean == InitClean /\ [][NextClean]_vars

InitChunk == InitChunkText /\ CleanOff /\ LLMOff /\ IngestOff /\ AppOff
NextChunk == ChunkStep \/ ChunkFinish
SpecChunk == InitChunk /\ [][NextChunk]_vars

InitLLM == InitLLMClient /\ CleanOff /\ ChunkOff /\ IngestOff /\ AppOff
NextLLM == GenerateStructured \/ GenerateText
SpecLLM == InitLLM /\ [][NextLLM]_vars

InitIngest == InitRunIngestion /\ CleanOff /\ ChunkOff /\ LLMOff /\ AppOff
NextIngest ==
    \/ IngestNoDirectory \/ IngestWalk \/ IngestSkip \/ IngestExtractionRaises
    \/ IngestEmpty \/ IngestUpsert \/ IngestFinish
SpecIngest == InitIngest /\ [][NextIngest]_vars

\* The application: every interaction runs the script of app.py.
Init == InitApp /\ CleanOff /\ ChunkOff /\ LLMOff /\ IngestOff
Next ==
    \/ SubmitQuery \/ RerunWithoutSearch
    \/ RetrieveReturns \/ RetrieveRaises
    \/ RankReturns \/ RankRaises
    \/ Generate
    \/ RenderAnswerReturns \/ RenderAnswerRaises
    \/ RenderEvidenceReturns \/ RenderEvidenceRaises
Spec == Init /\ [][Next]_vars

(***************************************************************************)
(* The properties                                                          *)
(***************************************************************************)
\* ---- LLMClient.generate_structured

\* A model with no field populated.
EmptyInstance(T) ==
    IF T = "Response"
    THEN [type |-> "Response",
          fields |-> [answer |-> "None", name_top |-> "None", supporting_datasets |-> "[]"]]
    ELSE [type |-> "DatasetSummary",
          fields |-> [name |-> "None", summary |-> "None", quote |-> "None"]]

\* The call fails: the provider has no structured implementation, the call
\* to it raises, or its text is not JSON or not valid for the model it is
\* parsed into.
StructuredCallFails ==
    \/ provider = "anthropic"
    \/ llm_ev.kind \in {"raise", "empty"}
    \/ ~llm_ev.json
    \/ ~Validates(ParsedAs(provider, llm_schema), llm_ev.obj)

C5_SuccessReturnsRequestedSchema ==
    (/\ llm_pc = "returned" /\ llm_schema # "None" /\ ~llm_warned
     /\ provider \in {"gemini", "openai", "groq"}) =>
        /\ llm_result.kind = "return"
        /\ llm_result.value.type = llm_schema
        /\ provider = "groq" =>
            (llm_sent = llm_schema /\ ParsedAs(provider, llm_schema) = llm_schema)

\* ---- clean_text

\* C4: clean_text is idempotent: clean_text(clean_text(t)) = clean_text(t).
C4_CleanTextIdempotent == ct_pc = "twice" => ct_twice = ct_once

\* ---- chunk_text

RECURSIVE SumTokens(_, _)
SumTokens(e, ss) == IF ss = <<>> THEN 0 ELSE TokLen(e, ss[1]) + SumTokens(e, Tail(ss))

\* The last n characters of s (all of s when it is shorter).
LastChars(s, n) == SubSeq(s, Len(s) - Min(n, Len(s)) + 1, Len(s))

\* The sentences of the chunk being built: current without its seed.
CurrentSentences == IF full_chunk = None THEN current ELSE Tail(current)

\* C8: the sentences placed in any emitted chunk (the chunk without the
\* overlap seed carried over from the previous chunk) have a total token
\* count of at most max_tokens.
C8_ChunkTokenBound ==
    ch_pc \in {"loop", "done"} =>
        /\ Len(placed) = Len(chunks)
        /\ \A k \in 1..Len(chunks) :
            /\ SumTokens(enc, placed[k]) <= max_tokens
            /\ IF k = 1
               THEN chunks[k] = Join(placed[k], <<" ">>)
               ELSE \E n \in 0..Len(chunks[k - 1]) :
                        chunks[k] = LastChars(chunks[k - 1], n) \o <<" ">>
                                        \o Join(placed[k], <<" ">>)
        /\ ch_pc = "loop" => SumTokens(enc, CurrentSentences) <= max_tokens

\* A seeded chunk was emitted whose sentences fill max_tokens exactly, so that
\* with its seed the chunk is over max_tokens.
C8_Witness ==
    /\ ch_pc = "done"
    /\ \E k \in 2..Len(chunks) :
        /\ SumTokens(enc, placed[k]) = max_tokens
        /\ TokLen(enc, chunks[k]) > max_tokens

\* C9: whenever a chunk is closed, the continuation chunk is seeded with
\* exactly the trailing overlap characters of the closed chunk's text (all of
\* it when it is shorter), for every overlap >= 0: the seed is never longer
\* than overlap characters.
C9_SeedIsTrailingOverlap ==
    (ch_pc = "loop" /\ full_chunk # None) =>
        /\ overlap_txt = LastChars(full_chunk, overlap)
        /\ current[1] = overlap_txt
        /\ Len(overlap_txt) <= overlap

\* ---- embed_and_upsert and run_ingestion

\* The model name contains "e5" in some letter case.
NamesE5(name) ==
    \E i \in 1..(Len(name) - 1) : name[i] \in {"e", "E"} /\ name[i + 1] = "5"

\* The files, in the order of the walk, whose chunk list was not empty.
RECURSIVE FilesWithChunks(_)
FilesWithChunks(k) ==
    IF k = 0 THEN <<>>
    ELSE IF file_chunks[k] \notin {NoneList, <<>>}
         THEN Append(FilesWithChunks(k - 1), k)
         ELSE FilesWithChunks(k - 1)

\* C6: for a non-empty chunk list every text passed to the encoder is
\* "passage: " followed by the chunk when the model name contains "e5" in any
\* letter case, and the chunk itself otherwise; the i-th stored document is
\* the unprefixed i-th chunk, under the id "{source_filename}_{i}" (0-based)
\* with the metadata {"dataset": source_filename}. For an empty chunk list
\* neither the encoder nor the collection is called.
C6_EmbedAndUpsert ==
    LET withChunks == FilesWithChunks(Len(file_chunks)) IN
    /\ Len(encode_calls) = Len(withChunks)
    /\ Len(add_calls) = Len(withChunks)
    /\ \A c \in 1..Len(withChunks) :
        LET cs == file_chunks[withChunks[c]]
            source == readable_source_name(platform, all_files[withChunks[c]].path)
            call == add_calls[c]
        IN /\ Len(encode_calls[c]) = Len(cs)
           /\ Len(call.ids) = Len(cs)
           /\ Len(call.documents) = Len(cs)
           /\ Len(call.metadatas) = Len(cs)
           /\ \A i \in 1..Len(cs) :
               /\ encode_calls[c][i] =
                    (IF NamesE5(embedding_model_name)
                     THEN <<"p", "a", "s", "s", "a", "g", "e", ":", " ">> \o cs[i]
                     ELSE cs[i])
               /\ call.documents[i] = cs[i]
               /\ call.ids[i] = source \o <<"_">> \o IntToStr(i - 1)
               /\ call.metadatas[i] = [dataset |-> source]

\* Two chunks of one file were encoded with the prefix, under a model name
\* that writes E5 in upper case, and a file without chunks was passed by.
C6_Witness ==
    /\ embedding_model_name = <<"m", "E", "5", "-", "L">>
    /\ \E c \in 1..Len(add_calls) :
        /\ Len(add_calls[c].ids) = 2
        /\ encode_calls[c][2] = PassagePrefix \o add_calls[c].documents[2]
    /\ \E k \in 1..Len(file_chunks) : file_chunks[k] = <<>>

\* The extraction of the file fails: it is missing or cannot be read, or it
\* is a PDF that cannot be parsed.
ExtractionFails(f) ==
    /\ IsDocument(f.path)
    /\ \/ f.state \in {"missing", "unreadable"}
       \/ f.state = "corrupt" /\ Ext(f.path) = DotPdf

\* C2: a file whose extraction fails yields empty text and zero chunks, and
\* the files after it are still processed: the failure never aborts the run.
C2_ExtractionFailureNeverAborts ==
    ing_pc \in {"loop", "raised", "done"} =>
        /\ \A k \in 1..ing_i :
            ExtractionFails(all_files[k]) => file_chunks[k] = <<>>
        /\ ~(/\ ing_pc = "raised"
             /\ ExtractionFails(all_files[ing_i + 1])
             /\ ing_exc # "DuplicateIDError")

RECURSIVE TotalChunks(_)
TotalChunks(k) ==
    IF k = 0 THEN 0
    ELSE TotalChunks(k - 1)
            + (IF file_chunks[k] = NoneList THEN 0 ELSE Len(file_chunks[k]))

\* Every id the run generated, in the order of the add calls.
RECURSIVE GeneratedIds(_)
GeneratedIds(c) == IF c = 0 THEN <<>> ELSE GeneratedIds(c - 1) \o add_calls[c].ids

\* C7: ingested into an empty collection, the tree raises the record count by
\* exactly the number of chunks of its .html and .pdf files; the other files
\* add nothing, and the ids generated over the run are pairwise distinct.
C7_CountAndDistinctIds ==
    ing_pc = "done" =>
        LET ids == GeneratedIds(Len(add_calls)) IN
        /\ ing_count = TotalChunks(Len(file_chunks))
        /\ \A k \in 1..Len(all_files) :
            ~IsDocument(all_files[k].path) => file_chunks[k] = NoneList
        /\ \A i, j \in 1..Len(ids) : i # j => ids[i] # ids[j]

\* ---- app.py

\* C3: an exception a step of the query raises is caught and shown as an
\* error message that contains its text; no later step of that query runs;
\* the next query is accepted and starts afresh, with the cached settings and
\* StudentGenerator as they were.
C3_ExceptionCaughtAndShown ==
    /\ [](caught.kind = "exception" =>
            /\ app_pc = "end"
            /\ steps[Len(steps)] = caught.step
            /\ page # <<>>
            /\ page[Len(page)] =
                 [kind |-> "error", text |-> <<"An error occurred: ", caught.exc>>]
            /\ Len(runs) < MaxQueries => ENABLED SubmitQuery)
    /\ [][/\ sys_cfg' = sys_cfg
          /\ student' = student
          /\ (caught.kind = "exception" /\ app_pc' # "end") =>
                (app_pc' = "retrieval" /\ caught' = NoData /\ page' = <<>>
                 /\ steps' = <<>>)]_vars

\* After a query that ended in an error message, the next query was answered.
C3_Witness ==
    /\ app_pc = "end"
    /\ Len(runs) = 2 /\ runs[1] = "error" /\ runs[2] = "answered"
    /\ Len(page) = 2

IsPrefix(s, t) == Len(s) <= Len(t) /\ \A i \in 1..Len(s) : s[i] = t[i]

Ran(step) == \E i \in 1..Len(steps) : steps[i] = step

\* C10: within one submitted non-empty query the steps run in the order
\* retrieval, ranking, generation, rendering, each at most once, each only
\* after the one before it returned; without a submission or with an empty
\* query none of them runs.
C10_StepsInOrder ==
    app_pc # "off" =>
        /\ IsPrefix(steps, <<"retrieval", "ranking", "generation",
                             "render_answer", "render_evidence">>)
        /\ Ran("ranking") => retrieved_data.kind = "retrieved"
        /\ Ran("generation") =>
                (ranked_data.kind = "ranked" /\ ranked_data.of = retrieved_data)
        /\ Ran("render_answer") => answer_object # NoData
        /\ ~(search_btn /\ query_text # "") => steps = <<>>

\* A query ran all its steps to the end.
C10_Witness ==
    /\ app_pc = "end"
    /\ steps = <<"retrieval", "ranking", "generation", "render_answer", "render_evidence">>
    /\ search_btn /\ query_text = "q1"

====
